---- MODULE Spec2Model ----
(***************************************************************************)
(* A model of max-stats (src/main.py): the snapshot store written by       *)
(* download_maxjeune and convert, the unified relation of scan_files, the   *)
(* completeness audit has_missing_requests, and the identity checks         *)
(* name_changes and iata_inconsistencies.                                   *)
(*                                                                         *)
(* Values.  A file name is <<stem, ext>>, the stem a sequence of            *)
(* one-character strings.  A table is [cols, rows]: a set of column names   *)
(* and a sequence of rows, each row a record over those columns.  A Date is *)
(* a day number, a Datetime a number of hours since day 0, a Duration a     *)
(* number of hours.                                                         *)
(***************************************************************************)
EXTENDS Integers, Sequences, FiniteSets, TLC

VARIABLES dir, from_dir, stations, now, runs, result

vars == <<dir, from_dir, stations, now, runs, result>>

(***************************************************************************)
(* Bounds of the model.                                                    *)
(***************************************************************************)
MaxInitFiles == 3
MaxRuns == 3
MaxDay == 3
MaxRows == 2
MaxScrapes == 5
MaxAuditDay == 6
MaxCatalog == 2

\* Hours in a calendar day: the unit behind dt.total_days() and dt.date().
HoursPerDay == 24

(***************************************************************************)
(* Generic helpers.                                                        *)
(***************************************************************************)
Range(s) == {s[i] : i \in 1..Len(s)}

SeqsUpTo(S, n) == UNION {[1..k -> S] : k \in 0..n}

\* Integer division that truncates toward zero, as Rust's i64 division does.
TruncDiv(a, b) == IF a >= 0 THEN a \div b ELSE -((-a) \div b)

(***************************************************************************)
(* Text <-> integer, as Python's int(str) and f"{n}" do it.                 *)
(***************************************************************************)
Digits == <<"0", "1", "2", "3", "4", "5", "6", "7", "8", "9">>

IsDigit(c) == \E i \in 1..10 : Digits[i] = c

DigitValue(c) == (CHOOSE i \in 1..10 : Digits[i] = c) - 1

RECURSIVE DigitsValue(_)
DigitsValue(s) ==
    IF s = <<>> THEN 0
    ELSE 10 * DigitsValue(SubSeq(s, 1, Len(s) - 1)) + DigitValue(s[Len(s)])

AllDigits(s) == Len(s) > 0 /\ \A i \in 1..Len(s) : IsDigit(s[i])

\* int(text) raises ValueError unless text is an optional sign and digits
\* (of the characters of CharOrder; blanks and underscores are not among them).
IsInt(s) ==
    \/ AllDigits(s)
    \/ Len(s) > 1 /\ s[1] \in {"-", "+"} /\ AllDigits(Tail(s))

ParseInt(s) ==
    IF s[1] = "-" THEN -DigitsValue(Tail(s))
    ELSE IF s[1] = "+" THEN DigitsValue(Tail(s))
    ELSE DigitsValue(s)

RECURSIVE FormatNat(_)
FormatNat(n) ==
    IF n < 10 THEN <<Digits[n + 1]>>
    ELSE FormatNat(n \div 10) \o <<Digits[(n % 10) + 1]>>

FormatInt(n) == IF n < 0 THEN <<"-">> \o FormatNat(-n) ELSE FormatNat(n)

(***************************************************************************)
(* Sorting.                                                                *)
(***************************************************************************)
\* Sorting is by an integer key: a sequence of <<key, item>> pairs, stable.
RECURSIVE InsertPair(_, _)
InsertPair(p, s) ==
    IF s = <<>> THEN <<p>>
    ELSE IF p[1] < Head(s)[1] THEN <<p>> \o s
    ELSE <<Head(s)>> \o InsertPair(p, Tail(s))

RECURSIVE SortPairs(_)
SortPairs(s) ==
    IF s = <<>> THEN <<>>
    ELSE InsertPair(s[Len(s)], SortPairs(SubSeq(s, 1, Len(s) - 1)))

RECURSIVE SetToSeq(_)
SetToSeq(S) ==
    IF S = {} THEN <<>>
    ELSE LET x == CHOOSE y \in S : TRUE IN <<x>> \o SetToSeq(S \ {x})

\* The items of a sequence of <<key, item>> pairs.
Items(pairs) == [i \in 1..Len(pairs) |-> pairs[i][2]]

\* Byte order of the characters a file name of the model can hold.
CharOrder == <<"+", "-", ".", "0", "1", "2", "3", "4", "5", "6", "7", "8", "9", "x">>

CharRanks == [c \in Range(CharOrder) |-> CHOOSE i \in 1..Len(CharOrder) : CharOrder[i] = c]

CharRank(c) == CharRanks[c]

RECURSIVE LexLess(_, _)
LexLess(s, t) ==
    IF t = <<>> THEN FALSE
    ELSE IF s = <<>> THEN TRUE
    ELSE IF s[1] = t[1] THEN LexLess(Tail(s), Tail(t))
    ELSE CharRank(s[1]) < CharRank(t[1])

PathLess(m, n) == LexLess(m[1] \o <<".">>, n[1] \o <<".">>)

(***************************************************************************)
(* Tables.                                                                 *)
(***************************************************************************)
UpstreamCols ==
    {"date", "train_no", "origine", "origine_iata", "destination",
     "destination_iata", "heure_depart", "heure_arrivee", "od_happy_card"}

\* One record of the upstream dataset, the times of day still "HH:MM" text.
Trip(date, train_no, origine, origine_iata, destination, destination_iata, card) ==
    [date |-> date, train_no |-> train_no,
     origine |-> origine, origine_iata |-> origine_iata,
     destination |-> destination, destination_iata |-> destination_iata,
     heure_depart |-> <<"0", "8", ":", "1", "5">>,
     heure_arrivee |-> <<"1", "0", ":", "4", "0">>,
     od_happy_card |-> card]

\* str.to_time("%H:%M"): minutes since midnight.
to_time(text) ==
    60 * DigitsValue(SubSeq(text, 1, 2)) + DigitsValue(SubSeq(text, 4, 5))

\* row with column c set to v (with_columns), and without the columns D (drop).
WithColumn(row, c, v) == (c :> v) @@ row

DropColumns(row, D) == [k \in DOMAIN row \ D |-> row[k]]

ParseTimes(row) ==
    [k \in DOMAIN row |->
        IF k \in {"heure_depart", "heure_arrivee"} THEN to_time(row[k]) ELSE row[k]]

\* Writing a file replaces whatever the path held.
WriteFile(d, name, table) ==
    [n \in DOMAIN d \cup {name} |-> IF n = name THEN table ELSE d[n]]

NoFiles == [n \in {} |-> 0]

\* data/stations.pq is not there.
NoCatalog == [exists |-> FALSE, rows |-> <<>>]

(***************************************************************************)
(* download_maxjeune.                                                      *)
(***************************************************************************)
\* A glob that passes over the files whose stem is no integer.
glob_numeric(d) == {n \in DOMAIN d : n[2] = "pq" /\ IsInt(n[1])}

glob_pq(d) == {n \in DOMAIN d : n[2] = "pq"}

\* int(file.stem) raises ValueError for some file of the glob.
StemError(d) == \E n \in glob_pq(d) : ~IsInt(n[1])

\* sorted(numbers)
sorted(numbers) ==
    Items(SortPairs([i \in 1..Len(numbers) |-> <<numbers[i], numbers[i]>>]))

stem_numbers(files) == [i \in 1..Len(files) |-> ParseInt(files[i][1])]

file_numbers(d) == sorted(stem_numbers(SetToSeq(glob_pq(d))))

\* An allocation that counts the files instead of reading the last number.
next_number_count(numbers) == Len(numbers) + 1

\* An allocation that reuses the last number.
next_number_last(numbers) ==
    IF Len(numbers) = 0 THEN 1 ELSE numbers[Len(numbers)]

next_number(numbers) ==
    IF Len(numbers) = 0 THEN 1 ELSE numbers[Len(numbers)] + 1

next_file(d) == <<FormatInt(next_number(file_numbers(d))), "pq">>

\* The table read from the upstream URL, as it is written to the snapshot.
downloaded(table, clock) ==
    [cols |-> table.cols \cup {"request_date"},
     rows |-> [i \in 1..Len(table.rows) |->
                 WithColumn(ParseTimes(table.rows[i]), "request_date", clock)]]

Outcome(op, status, value) == [op |-> op, status |-> status, value |-> value]

\* The store and the outcome of a run that got as far as next_file.
written(d, path, data) ==
    [dir |-> WriteFile(d, path, data),
     result |-> Outcome("download_maxjeune", "ok", path)]

\* One run: the ValueError of an unparsable stem comes before the fetch and
\* the write; the fetch delivers table and the write succeeds.
download_run(d, table, clock) ==
    IF StemError(d)
    THEN [dir |-> d, result |-> Outcome("download_maxjeune", "ValueError", <<>>)]
    ELSE written(d, next_file(d), downloaded(table, clock))

\* A run that fetches table and reads clock from datetime.now(); the clock
\* never runs backwards.
download_maxjeune(table, clock) ==
    /\ clock >= now
    /\ now' = clock
    /\ runs' = runs + 1
    /\ \E run \in {download_run(dir, table, clock)} :
          /\ dir' = run.dir
          /\ result' = run.result
    /\ UNCHANGED <<from_dir, stations>>

(***************************************************************************)
(* scan_files: the unified relation over every *.pq file of the store.     *)
(***************************************************************************)
\* The files of the glob in path order.
paths_in_order(S, files) ==
    Items(SortPairs([i \in 1..Len(files) |->
        <<Cardinality({m \in S : PathLess(m, files[i])}), files[i]>>]))

scan_paths(d) == paths_in_order(glob_pq(d), SetToSeq(glob_pq(d)))

\* dt.total_days() of a Date minus a Datetime: the Date is cast to the
\* Datetime of its midnight, the Duration is divided by a day toward zero.
days_between(date, request_date) ==
    TruncDiv(date * HoursPerDay - request_date, HoursPerDay)

derived(row, path) ==
    [file_path |-> path,
     has_seat |-> row.od_happy_card = "OUI",
     days_to_trip |-> days_between(row.date, row.request_date)] @@ row

file_rows(rows, path) == [i \in 1..Len(rows) |-> derived(rows[i], path)]

RECURSIVE scan_rows(_, _)
scan_rows(d, paths) ==
    IF paths = <<>> THEN <<>>
    ELSE file_rows(d[Head(paths)].rows, Head(paths)) \o scan_rows(d, Tail(paths))

\* ok is FALSE when the scan raises: no file matches the glob, or the files
\* do not share one column set.
scan(d, paths) ==
    IF paths = <<>> \/ \E i \in 1..Len(paths) : d[paths[i]].cols # d[paths[1]].cols
    THEN [ok |-> FALSE, cols |-> {}, rows |-> <<>>]
    ELSE [ok |-> TRUE,
          cols |-> d[paths[1]].cols \cup {"file_path", "has_seat", "days_to_trip"},
          rows |-> scan_rows(d, paths)]

scan_files(d) == scan(d, scan_paths(d))

(***************************************************************************)
(* has_missing_requests.                                                   *)
(***************************************************************************)
\* dt.date() of a Datetime.
DateOf(t) == t \div HoursPerDay

\* select("file_path", "request_date").unique(...).sort("request_date")
sort_by_request_date(pairs) ==
    Items(SortPairs([i \in 1..Len(pairs) |-> <<pairs[i][2], pairs[i]>>]))

requests_of(frame) ==
    sort_by_request_date(
        SetToSeq({<<r.file_path, r.request_date>> : r \in Range(frame.rows)}))

\* A count of the gaps that takes the difference of the timestamps.
n_missing_days_datetime(requests) ==
    Cardinality({i \in 1..(Len(requests) - 1) :
        TruncDiv(requests[i + 1][2] - requests[i][2], HoursPerDay) > 1})

\* diff() of the dates, a Duration, then the rows with total_days() > 1.
n_missing_days(requests) ==
    Cardinality({i \in 1..(Len(requests) - 1) :
        TruncDiv((DateOf(requests[i + 1][2]) - DateOf(requests[i][2])) * HoursPerDay,
                 HoursPerDay) > 1})

RequestDates(requests) == {DateOf(requests[i][2]) : i \in 1..Len(requests)}

MinOf(S) == CHOOSE x \in S : \A y \in S : x <= y

MaxOf(S) == CHOOSE x \in S : \A y \in S : y <= x

\* min() and max() of an empty column are null.
Null == "null"

report_of(requests, dates) ==
    [n_requested_days |-> Cardinality(dates),
     n_missing_days |-> n_missing_days(requests),
     requests_start |-> IF dates = {} THEN Null ELSE MinOf(dates),
     requests_end |-> IF dates = {} THEN Null ELSE MaxOf(dates)]

report(requests) == report_of(requests, RequestDates(requests))

audit(frame) ==
    IF frame.ok
    THEN Outcome("has_missing_requests", "ok", report(requests_of(frame)))
    ELSE Outcome("has_missing_requests", "ScanError", <<>>)

has_missing_requests ==
    /\ result' = audit(scan_files(dir))
    /\ UNCHANGED <<dir, from_dir, stations, now, runs>>

(***************************************************************************)
(* The snapshot store: runs of download_maxjeune over a directory that may  *)
(* already hold files, some of them not written by the program.             *)
(***************************************************************************)
Stem1 == <<"1">>
Stem2 == <<"2">>
Stem5 == <<"5">>
Stem01 == <<"0", "1">>
StemX == <<"x">>
Stem2x == <<"2", "x">>
StemNeg == <<"-", "3">>

StoreNames ==
    {<<s, "pq">> : s \in {Stem1, Stem2, Stem5, Stem01, StemX, Stem2x, StemNeg}}
    \cup {<<StemX, "csv">>, <<Stem5, "csv">>}

OldTable == [cols |-> UpstreamCols \cup {"request_date"}, rows |-> <<>>]

StoreTable ==
    [cols |-> UpstreamCols,
     rows |-> <<Trip(10, 1, "Alpha", "AAA", "Beta", "BBB", "OUI")>>]

UpstreamTables ==
    {[cols |-> UpstreamCols, rows |-> <<>>],
     [cols |-> UpstreamCols,
      rows |-> <<Trip(10, 1, "Alpha", "AAA", "Beta", "BBB", "OUI")>>]}

NoResult == Outcome("none", "none", <<>>)

InitStore ==
    /\ \E S \in SUBSET StoreNames :
          /\ Cardinality(S) <= MaxInitFiles
          /\ dir = [n \in S |-> OldTable]
    /\ from_dir = NoFiles
    /\ stations = NoCatalog
    /\ now = 0
    /\ runs = 0
    /\ result = NoResult

\* The scheduled job: one run a day, or several.
DailyMoments == {d * HoursPerDay + 9 : d \in 0..MaxDay}

NextStore ==
    \E clock \in DailyMoments :
        runs < MaxRuns /\ download_maxjeune(StoreTable, clock)

SpecStore == InitStore /\ [][NextStore]_vars

InitEmpty ==
    /\ dir = NoFiles
    /\ from_dir = NoFiles
    /\ stations = NoCatalog
    /\ now = 0
    /\ runs = 0
    /\ result = NoResult

\* Runs at midnight and during the day.
Moments == {d * HoursPerDay + h : d \in 0..MaxDay, h \in {0, 9}}

NextEmpty ==
    \E t \in UpstreamTables, clock \in Moments :
        runs < MaxRuns /\ download_maxjeune(t, clock)

SpecEmpty == InitEmpty /\ [][NextEmpty]_vars

(***************************************************************************)
(* Claims about the snapshot store.                                        *)
(***************************************************************************)
PqStems(d) == {n[1] : n \in {m \in DOMAIN d : m[2] = "pq"}}

ExistingNumbers(d) == {ParseInt(s) : s \in PqStems(d)}

Unparsable(d) == \E s \in PqStems(d) : ~IsInt(s)

RunStep == runs' = runs + 1

\* C1: a run over a directory whose snapshot stems all parse picks 1 when
\* there is no snapshot file and max(existing) + 1 otherwise, a number above
\* every existing one, so never one that fills a hole: with 1, 2, 5 it is 6.
C1_AllocatesMaxPlusOne ==
    [][(RunStep /\ ~Unparsable(dir)) =>
          LET E == ExistingNumbers(dir)
              picked == result'.value
          IN  /\ result'.status = "ok"
              /\ picked[2] = "pq"
              /\ E = {} => picked[1] = <<"1">>
              /\ E # {} => /\ IsInt(picked[1])
                           /\ ParseInt(picked[1]) = MaxOf(E) + 1
                           /\ \A e \in E : ParseInt(picked[1]) > e
              /\ PqStems(dir) = {Stem1, Stem2, Stem5} => picked[1] = <<"6">>]_vars

C1_Witness ==
    /\ {<<Stem1, "pq">>, <<Stem2, "pq">>, <<Stem5, "pq">>} \subseteq DOMAIN dir
    /\ <<<<"3">>, "pq">> \notin DOMAIN dir
    /\ result = Outcome("download_maxjeune", "ok", <<<<"6">>, "pq">>)
    /\ <<<<"6">>, "pq">> \in DOMAIN dir

\* C2: from an empty store, every run adds exactly one file, numbered above
\* every number present, no file already present is changed or removed by
\* any step, and after n runs the snapshot numbers are exactly 1..n.
C2_AppendOnly ==
    /\ [](/\ DOMAIN dir = {<<FormatInt(i), "pq">> : i \in 1..runs}
          /\ ExistingNumbers(dir) = 1..runs)
    /\ [][/\ \A n \in DOMAIN dir : n \in DOMAIN dir' /\ dir'[n] = dir[n]
          /\ RunStep =>
                \E f \in DOMAIN dir' :
                    /\ f \notin DOMAIN dir
                    /\ DOMAIN dir' = DOMAIN dir \cup {f}
                    /\ \A e \in ExistingNumbers(dir) : ParseInt(f[1]) > e
          /\ ~RunStep => DOMAIN dir' = DOMAIN dir]_vars

C2_Witness ==
    /\ runs = 3
    /\ DOMAIN dir = {<<Stem1, "pq">>, <<Stem2, "pq">>, <<<<"3">>, "pq">>}
    /\ dir[<<Stem1, "pq">>] # dir[<<Stem2, "pq">>]
    /\ dir[<<Stem2, "pq">>] # dir[<<<<"3">>, "pq">>]

\* C9: when a snapshot file's stem does not parse as an integer, the run
\* fails with ValueError, picks no number and leaves every file as it was.
C9_UnparsableStemFails ==
    [][(RunStep /\ Unparsable(dir)) =>
          /\ result' = Outcome("download_maxjeune", "ValueError", <<>>)
          /\ dir' = dir]_vars

C9_Witness ==
    /\ result.status = "ValueError"
    /\ <<Stem2x, "pq">> \in DOMAIN dir
    /\ <<Stem1, "pq">> \in DOMAIN dir
    /\ runs = 2

(***************************************************************************)
(* The audit: daily and same-day runs, then has_missing_requests.          *)
(***************************************************************************)
AuditHours == {9, 17}

AuditMoments == {d * HoursPerDay + h : d \in 0..MaxAuditDay, h \in AuditHours}

AuditTable ==
    [cols |-> UpstreamCols,
     rows |-> <<Trip(10, 1, "Alpha", "AAA", "Beta", "BBB", "OUI"),
                Trip(11, 2, "Beta", "BBB", "Alpha", "AAA", "NON")>>]

InitAudit ==
    /\ dir = NoFiles
    /\ from_dir = NoFiles
    /\ stations = NoCatalog
    /\ now = 0
    /\ runs = 0
    /\ result = NoResult

NextAudit ==
    \/ \E clock \in AuditMoments :
          runs < MaxScrapes /\ download_maxjeune(AuditTable, clock)
    \/ has_missing_requests

SpecAudit == InitAudit /\ [][NextAudit]_vars

\* The calendar dates on which the rows of the store were requested.
ScrapeDates ==
    UNION {{DateOf(r.request_date) : r \in Range(dir[n].rows)} : n \in glob_pq(dir)}

\* The dates followed, among the scrape dates, by one more than a day later.
GapStarts(D) ==
    {d \in D : /\ \E e \in D : e > d
               /\ \A e \in D : e > d => e > d + 1}

ReportOf == result.value

\* C3: n_missing_days is the number of pairs of consecutive distinct scrape
\* dates more than one day apart, each gap counted once whatever its length,
\* also when snapshots share a date or a timestamp; 1 for {D, D+1, D+2, D+5,
\* D+6} and 0 for {D, D+1, D+2}.
C3_GapOccurrences ==
    (result.op = "has_missing_requests" /\ glob_pq(dir) # {}) =>
        /\ result.status = "ok"
        /\ ReportOf.n_missing_days = Cardinality(GapStarts(ScrapeDates))
        /\ ScrapeDates = {0, 1, 2, 5, 6} => ReportOf.n_missing_days = 1
        /\ ScrapeDates = {0, 1, 2} => ReportOf.n_missing_days = 0

C3_Witness ==
    /\ result.op = "has_missing_requests"
    /\ ScrapeDates = {0, 1, 2, 5, 6}
    /\ Cardinality(glob_pq(dir)) = 5
    /\ ReportOf.n_missing_days = 1

\* C4: days_to_trip of every row of the unified relation is the number of
\* calendar days from the date of request_date to the trip's date, whatever
\* the time of day of request_date.
C4_DaysToTripIsCalendarDays ==
    \A r \in Range(scan_files(dir).rows) :
        r.days_to_trip = r.date - DateOf(r.request_date)

(***************************************************************************)
(* name_changes.                                                           *)
(***************************************************************************)
\* The distinct names seen with a code, in no particular order.
names_of(frame, name_col, code_col, code) ==
    SetToSeq({r[name_col] : r \in {q \in Range(frame.rows) : q[code_col] = code}})

\* group_by(name, code).agg().group_by(iata=code).agg(names=name.unique())
\*     .filter(names.list.len() > 1)
role_name_changes(frame, name_col, code_col) ==
    LET codes == SetToSeq({r[code_col] : r \in Range(frame.rows)})
        groups == [i \in 1..Len(codes) |->
                     [iata |-> codes[i],
                      names |-> names_of(frame, name_col, code_col, codes[i])]]
    IN  SelectSeq(groups, LAMBDA g : Len(g.names) > 1)

\* left.join(right, on="iata", how="full"): the key of each side is kept, as
\* iata and iata_right; a side without a match is null.
full_join(left, right) ==
    LET matched(l) == SelectSeq(right, LAMBDA r : r.iata = l.iata)
        left_rows == [i \in 1..Len(left) |->
            IF matched(left[i]) = <<>>
            THEN [iata |-> left[i].iata, names |-> left[i].names,
                  iata_right |-> Null, names_right |-> Null]
            ELSE [iata |-> left[i].iata, names |-> left[i].names,
                  iata_right |-> matched(left[i])[1].iata,
                  names_right |-> matched(left[i])[1].names]]
        unmatched == SelectSeq(right,
                        LAMBDA r : \A i \in 1..Len(left) : left[i].iata # r.iata)
    IN  left_rows \o [i \in 1..Len(unmatched) |->
            [iata |-> Null, names |-> Null,
             iata_right |-> unmatched[i].iata, names_right |-> unmatched[i].names]]

\* fill_null(pl.lit([]))
fill_null(list) == IF list = Null THEN <<>> ELSE list

\* concat_list(a, b).list.unique()
concat_unique(a, b) == SetToSeq(Range(a) \cup Range(b))

\* with_columns(fill_null...), with_columns(names=...), drop(names_right, iata_right)
merged(joined) ==
    [i \in 1..Len(joined) |->
        [iata |-> joined[i].iata,
         names |-> concat_unique(fill_null(joined[i].names),
                                 fill_null(joined[i].names_right))]]

name_changes_of(frame) ==
    merged(full_join(role_name_changes(frame, "destination", "destination_iata"),
                     role_name_changes(frame, "origine", "origine_iata")))

name_changes_outcome(frame) ==
    IF frame.ok
    THEN Outcome("name_changes", "ok", name_changes_of(frame))
    ELSE Outcome("name_changes", "ScanError", <<>>)

name_changes ==
    /\ result' = name_changes_outcome(scan_files(dir))
    /\ UNCHANGED <<dir, from_dir, stations, now, runs>>

(***************************************************************************)
(* iata_inconsistencies.                                                   *)
(***************************************************************************)
\* tail(1_000_000)
TailRows == 1000000

Station(code, name) == ("ref:FR:sncf:resarail" :> code) @@ [name |-> name]

\* rename({"ref:FR:sncf:resarail": "iata"})
renamed(rows) ==
    [i \in 1..Len(rows) |->
        [iata |-> rows[i]["ref:FR:sncf:resarail"], name |-> rows[i].name]]

\* unique(key): one row for every value of the key.
RECURSIVE unique_by(_, _)
unique_by(rows, cols) ==
    IF rows = <<>> THEN <<>>
    ELSE LET rest == unique_by(SubSeq(rows, 1, Len(rows) - 1), cols)
             last == rows[Len(rows)]
         IN  IF \E i \in 1..Len(rest) : \A c \in cols : rest[i][c] = last[c]
             THEN rest
             ELSE rest \o <<last>>

\* The observed codes without the unique("iata").
origins_all(frame) ==
    LET kept == SelectSeq(frame.rows, LAMBDA r : r.origine # "TBD")
    IN  [i \in 1..Len(kept) |->
            [origine |-> kept[i].origine, iata |-> kept[i].origine_iata]]

\* filter(origine != "TBD").select("origine", iata="origine_iata").unique("iata")
origins_of(frame) ==
    LET kept == SelectSeq(frame.rows, LAMBDA r : r.origine # "TBD")
    IN  unique_by([i \in 1..Len(kept) |->
                      [origine |-> kept[i].origine, iata |-> kept[i].origine_iata]],
                  {"iata"})

\* origins.join(stations, on="iata", how="anti").select("iata")
missing_of(origins, catalog) ==
    LET anti == SelectSeq(origins,
                    LAMBDA o : \A i \in 1..Len(catalog) : catalog[i].iata # o.iata)
    IN  [i \in 1..Len(anti) |-> anti[i].iata]

\* The trips printed for triage: the last TailRows rows, those of a missing
\* code, one for every train.
triage(frame, missing) ==
    LET kept == SelectSeq(frame.rows, LAMBDA r : r.origine # "TBD")
        from == IF Len(kept) > TailRows THEN Len(kept) - TailRows + 1 ELSE 1
        tail == SubSeq(kept, from, Len(kept))
    IN  unique_by(SelectSeq(tail, LAMBDA r : r.origine_iata \in Range(missing)),
                  {"date", "train_no", "origine_iata", "destination_iata",
                   "heure_depart", "heure_arrivee"})

inconsistencies(frame, missing) ==
    Outcome("iata_inconsistencies", "ok",
            [missing |-> missing, trips |-> triage(frame, missing)])

iata_outcome(catalog, frame) ==
    IF ~catalog.exists
    THEN Outcome("iata_inconsistencies", "FileNotFoundError", <<>>)
    ELSE IF ~frame.ok
    THEN Outcome("iata_inconsistencies", "ScanError", <<>>)
    ELSE inconsistencies(frame, missing_of(origins_of(frame), renamed(catalog.rows)))

iata_inconsistencies ==
    /\ result' = iata_outcome(stations, scan_files(dir))
    /\ UNCHANGED <<dir, from_dir, stations, now, runs>>

(***************************************************************************)
(* The identity checks over a store of two snapshots.                      *)
(***************************************************************************)
File1 == <<Stem1, "pq">>
File2 == <<Stem2, "pq">>

\* The store after two runs that fetched rows1 and then rows2.
TwoSnapshots(rows1, rows2) ==
    (File1 :> downloaded([cols |-> UpstreamCols, rows |-> rows1], 9))
    @@ (File2 :> downloaded([cols |-> UpstreamCols, rows |-> rows2], 9 + HoursPerDay))

StationNames == {"Alpha", "AlphaCity", "Alfa"}

StationCodes == {"AAA", "BBB"}

NameRows ==
    {Trip(10, 1, o, oi, d, di, "OUI") :
        o \in StationNames, oi \in StationCodes,
        d \in StationNames, di \in StationCodes}

InitNames ==
    /\ \E rows1, rows2 \in SeqsUpTo(NameRows, MaxRows) :
          /\ Len(rows1) + Len(rows2) <= MaxRows
          /\ dir = TwoSnapshots(rows1, rows2)
    /\ from_dir = NoFiles
    /\ stations = NoCatalog
    /\ now = 9 + HoursPerDay
    /\ runs = 2
    /\ result = NoResult

NextNames == name_changes

SpecNames == InitNames /\ [][NextNames]_vars

StoredRows == UNION {Range(dir[n].rows) : n \in glob_pq(dir)}

OriginNames(code) == {r.origine : r \in {q \in StoredRows : q.origine_iata = code}}

DestinationNames(code) ==
    {r.destination : r \in {q \in StoredRows : q.destination_iata = code}}

Flagged(code) ==
    Cardinality(OriginNames(code)) > 1 \/ Cardinality(DestinationNames(code)) > 1

\* C5: a station code is a key of the mapping name_changes returns exactly
\* when it has more than one name as an origin or more than one name as a
\* destination.
C5_FlaggedCodesAreKeys ==
    result.op = "name_changes" =>
        \A code \in StationCodes :
            Flagged(code) <=> \E i \in 1..Len(result.value) : result.value[i].iata = code

\* C6: the names under every code of the mapping are all the names seen with
\* that code as an origin or as a destination, each once.
C6_NamesAreUnionOfBothRoles ==
    result.op = "name_changes" =>
        \A i \in 1..Len(result.value) :
            result.value[i].iata # Null =>
                /\ Range(result.value[i].names) =
                      OriginNames(result.value[i].iata)
                      \cup DestinationNames(result.value[i].iata)
                /\ Cardinality(Range(result.value[i].names)) = Len(result.value[i].names)

(***************************************************************************)
(* The catalog reconciliation over a store of two snapshots.               *)
(***************************************************************************)
OriginNamesSeen == {"Alpha", "TBD"}

OriginCodes == {"AAA", "BBB", "TBD"}

IataRows ==
    {Trip(10, 1, o, oi, "Beta", "BBB", "OUI") :
        o \in OriginNamesSeen, oi \in OriginCodes}

\* data/stations.pq as download_aux writes it, with no station or some.
Catalogs ==
    {[exists |-> TRUE, rows |-> rows] :
        rows \in SeqsUpTo({Station(c, "Gare") : c \in {"AAA", "BBB"}}, MaxCatalog)}

InitIata ==
    /\ \E rows1, rows2 \in SeqsUpTo(IataRows, MaxRows) :
          /\ Len(rows1) + Len(rows2) <= MaxRows
          /\ Len(rows1) + Len(rows2) > 0
          /\ dir = TwoSnapshots(rows1, rows2)
    /\ from_dir = NoFiles
    /\ stations \in Catalogs \cup {NoCatalog}
    /\ now = 9 + HoursPerDay
    /\ runs = 2
    /\ result = NoResult

NextIata == iata_inconsistencies

SpecIata == InitIata /\ [][NextIata]_vars

CatalogCodes == {stations.rows[i]["ref:FR:sncf:resarail"] : i \in 1..Len(stations.rows)}

Occurrences(code, list) == Cardinality({i \in 1..Len(list) : list[i] = code})

\* The sentinel the claim speaks of, read as a station code.
SentinelCode == "TBD"

C8_NoCatalogIsAnError ==
    (result.op = "iata_inconsistencies" /\ (~stations.exists \/ stations.rows = <<>>)) =>
        result.status # "ok"

(***************************************************************************)
(* convert, with the store as to_dir.                                      *)
(***************************************************************************)
AuxCols == {"_key", "_type"}

\* with_columns(to_time ...).drop("_key", "_type") that forgets the drop.
converted_keep_aux(table) ==
    [cols |-> table.cols,
     rows |-> [i \in 1..Len(table.rows) |-> ParseTimes(table.rows[i])]]

converted(table) ==
    [cols |-> table.cols \ AuxCols,
     rows |-> [i \in 1..Len(table.rows) |->
                 DropColumns(ParseTimes(table.rows[i]), AuxCols)]]

glob_csv(d) == {n \in DOMAIN d : n[2] = "csv"}

\* The loop over the glob, in the order the directory lists the files; drop
\* raises ColumnNotFoundError for a file without the columns, and the files
\* written before it stay.
RECURSIVE convert_files(_, _, _)
convert_files(d, src, order) ==
    IF order = <<>> THEN [dir |-> d, status |-> "ok"]
    ELSE IF ~(AuxCols \subseteq src[Head(order)].cols)
    THEN [dir |-> d, status |-> "ColumnNotFoundError"]
    ELSE convert_files(WriteFile(d, <<Head(order)[1], "pq">>, converted(src[Head(order)])),
                       src, Tail(order))

Orders(S) ==
    {o \in [1..Cardinality(S) -> S] : \A i, j \in DOMAIN o : o[i] = o[j] => i = j}

convert ==
    /\ \E order \in Orders(glob_csv(from_dir)) :
          \E out \in {convert_files(dir, from_dir, order)} :
              /\ dir' = out.dir
              /\ result' = Outcome("convert", out.status, <<>>)
    /\ UNCHANGED <<from_dir, stations, now, runs>>

(***************************************************************************)
(* A store fed by convert from legacy CSV files and by download_maxjeune.   *)
(***************************************************************************)
\* A file of the earlier collection: the upstream columns, the request date
\* and the two bookkeeping columns.
LegacyTable ==
    [cols |-> UpstreamCols \cup {"request_date"} \cup AuxCols,
     rows |-> <<("_key" :> "k1") @@ ("_type" :> "dict") @@ [request_date |-> 9]
                @@ Trip(10, 1, "Alpha", "AAA", "Beta", "BBB", "OUI")>>]

\* A CSV file without the bookkeeping columns.
PlainTable ==
    [cols |-> UpstreamCols \cup {"request_date"},
     rows |-> <<[request_date |-> 9]
                @@ Trip(10, 1, "Alpha", "AAA", "Beta", "BBB", "NON")>>]

CsvNames == {<<Stem1, "csv">>, <<Stem2, "csv">>, <<<<"3">>, "csv">>}

InitConvert ==
    /\ dir = NoFiles
    /\ \E S \in SUBSET CsvNames : from_dir \in [S -> {LegacyTable, PlainTable}]
    /\ stations = NoCatalog
    /\ now = 0
    /\ runs = 0
    /\ result = NoResult

NextConvert ==
    \/ convert
    \/ \E clock \in DailyMoments :
          runs < MaxRuns /\ download_maxjeune(AuditTable, clock)
    \/ has_missing_requests

SpecConvert == InitConvert /\ [][NextConvert]_vars

====
